---- MODULE Spec2Model ----
(***************************************************************************)
(* LIYA: the capture-to-result pipeline of src/src/App.tsx.                *)
(*                                                                         *)
(*   - normalizeCoordinates and analyzeImage are pure operators over a     *)
(*     model of JavaScript numbers (exact rationals, NaN, +/-Infinity)     *)
(*     and of strings (sequences of one-character strings);                *)
(*   - App (status, result, error, lastImg) and CameraView (stream, the    *)
(*     pending getUserMedia calls, the pending FileReader loads) are the   *)
(*     state machine Spec, one action per event handler / promise          *)
(*     continuation, each run to completion as on the UI thread;           *)
(*   - SpecFn draws one HTTP outcome and applies analyzeImage to it.       *)
(***************************************************************************)
EXTENDS Integers, Sequences, FiniteSets, TLC

VARIABLES
    status,      \* App: useState<DetectionStatus>
    result,      \* App: useState<DetectionResult | null>   (None / Some(v))
    error,       \* App: useState<string | null>            (None / Some(msg))
    lastImg,     \* App: useState<string | null>            (None / Some(img))
    calls,       \* analyzeImage calls awaiting fetch: image -> how many
    readers,     \* FileReader loads pending: image -> how many
    mountId,     \* CameraView instances created so far (the current one)
    stream,      \* CameraView: useState<MediaStream | null> of the mounted view
    acquiring,   \* CameraView instances whose getUserMedia call is pending
    live,        \* MediaStreams acquired whose tracks are not stopped
    nCaptures,   \* handleCapture invocations so far
    nRequests,   \* fetch calls issued so far
    last,        \* the last event handled and the status it found
    fnIn,        \* SpecFn: the HTTP outcome handed to analyzeImage
    fnOut,       \* SpecFn: what analyzeImage produced for it
    fnPc         \* SpecFn: "off" | "call" | "done"

vars == <<status, result, error, lastImg, calls, readers, mountId, stream,
          acquiring, live, nCaptures, nRequests, last, fnIn, fnOut, fnPc>>

appVars == <<status, result, error, lastImg, calls, readers, mountId, stream,
             acquiring, live, nCaptures, nRequests, last>>

fnVars == <<fnIn, fnOut, fnPc>>

(***************************************************************************)
(* Bounds of the model.                                                    *)
(***************************************************************************)
\* accepted captures plus file loads still pending, over one run
MaxCaptures == 3
\* length of the prediction list of a response
MaxPreds == 2

(***************************************************************************)
(* null / undefined and optional fields: <<>> is absent, <<x>> is x.       *)
(***************************************************************************)
None == <<>>

Some(x) == <<x>>

IsSome(o) == Len(o) = 1

Get(o) == o[1]

(***************************************************************************)
(* JavaScript numbers: an exact rational n/d (d > 0), NaN, +/-Infinity.    *)
(***************************************************************************)
Abs(i) == IF i < 0 THEN -i ELSE i

RECURSIVE Gcd(_, _)
Gcd(a, b) == IF b = 0 THEN a ELSE Gcd(b, a % b)

Num(n, d) ==
    LET g == Gcd(Abs(n), d)
    IN  [k |-> "num", n |-> n \div g, d |-> d \div g]

NaN == [k |-> "NaN", n |-> 0, d |-> 1]

PosInf == [k |-> "+Infinity", n |-> 1, d |-> 1]

NegInf == [k |-> "-Infinity", n |-> -1, d |-> 1]

IsNaN(a) == a.k = "NaN"

\* a < b on numbers that are not NaN
JsLess(a, b) ==
    IF a.k = "+Infinity" \/ b.k = "-Infinity" THEN FALSE
    ELSE IF a.k = "-Infinity" \/ b.k = "+Infinity" THEN TRUE
    ELSE a.n * b.d < b.n * a.d

\* a / w for an integer w: x/0 is +/-Infinity, 0/0 is NaN
JsDiv(a, w) ==
    IF a.k # "num" THEN a
    ELSE IF w = 0
         THEN (IF a.n = 0 THEN NaN ELSE IF a.n > 0 THEN PosInf ELSE NegInf)
         ELSE IF w > 0 THEN Num(a.n, a.d * w) ELSE Num(-a.n, a.d * (-w))

\* a * m for an integer m > 0
JsMul(a, m) == IF a.k # "num" THEN a ELSE Num(a.n * m, a.d)

MathMin(a, b) ==
    IF IsNaN(a) \/ IsNaN(b) THEN NaN ELSE IF JsLess(b, a) THEN b ELSE a

MathMax(a, b) ==
    IF IsNaN(a) \/ IsNaN(b) THEN NaN ELSE IF JsLess(a, b) THEN b ELSE a

\* Math.round(c * 100) of a score held in thousandths
RoundPercent(c) == (c + 5) \div 10

(***************************************************************************)
(* Strings that the code takes apart are sequences of characters.          *)
(***************************************************************************)
LowerChars ==
    <<"a", "b", "c", "d", "e", "f", "g", "h", "i", "j", "k", "l", "m",
      "n", "o", "p", "q", "r", "s", "t", "u", "v", "w", "x", "y", "z">>

UpperChars ==
    <<"A", "B", "C", "D", "E", "F", "G", "H", "I", "J", "K", "L", "M",
      "N", "O", "P", "Q", "R", "S", "T", "U", "V", "W", "X", "Y", "Z">>

LowerChar(c) ==
    IF \E i \in 1..Len(UpperChars) : UpperChars[i] = c
    THEN LowerChars[CHOOSE i \in 1..Len(UpperChars) : UpperChars[i] = c]
    ELSE c

UpperChar(c) ==
    IF \E i \in 1..Len(LowerChars) : LowerChars[i] = c
    THEN UpperChars[CHOOSE i \in 1..Len(LowerChars) : LowerChars[i] = c]
    ELSE c

toLowerCase(s) == [i \in 1..Len(s) |-> LowerChar(s[i])]

toUpperCase(s) == [i \in 1..Len(s) |-> UpperChar(s[i])]

\* s.replace(/-/g, ' ')
replaceHyphens(s) == [i \in 1..Len(s) |-> IF s[i] = "-" THEN " " ELSE s[i]]

\* s.includes(t)
includes(s, t) ==
    \E i \in 0..(Len(s) - Len(t)) : SubSeq(s, i + 1, i + Len(t)) = t

Healthy == <<"h", "e", "a", "l", "t", "h", "y">>

(***************************************************************************)
(* normalizeCoordinates (App.tsx 65-81).                                   *)
(***************************************************************************)
\* Math.max(0, Math.min(1000, v))
clamp(v) == MathMax(Num(0, 1), MathMin(Num(1000, 1), v))

\* ((c - size / 2) / dim) * 1000
lowEdge(c, size, dim) == JsMul(JsDiv(Num(2 * c - size, 2), dim), 1000)

\* ((c + size / 2) / dim) * 1000
highEdge(c, size, dim) == JsMul(JsDiv(Num(2 * c + size, 2), dim), 1000)

\* normalizeCoordinates with xmin and xmax exchanged in the returned object
normalizeCoordinatesSwapped(pred, imgWidth, imgHeight) ==
    LET xmin == lowEdge(pred.x, pred.width, imgWidth)
        xmax == highEdge(pred.x, pred.width, imgWidth)
        ymin == lowEdge(pred.y, pred.height, imgHeight)
        ymax == highEdge(pred.y, pred.height, imgHeight)
    IN  [ymin |-> clamp(ymin), xmin |-> clamp(xmax),
         ymax |-> clamp(ymax), xmax |-> clamp(xmin)]

normalizeCoordinates(pred, imgWidth, imgHeight) ==
    LET xmin == lowEdge(pred.x, pred.width, imgWidth)
        xmax == highEdge(pred.x, pred.width, imgWidth)
        ymin == lowEdge(pred.y, pred.height, imgHeight)
        ymax == highEdge(pred.y, pred.height, imgHeight)
    IN  [ymin |-> clamp(ymin), xmin |-> clamp(xmin),
         ymax |-> clamp(ymax), xmax |-> clamp(xmax)]

(***************************************************************************)
(* analyzeImage (App.tsx 83-135).  An HTTP outcome r is                    *)
(*   [net  |-> "error" | "ok"          fetch rejected / resolved           *)
(*    ok   |-> BOOLEAN                  response.ok                        *)
(*    json |-> "invalid" | "null" | "object"   what response.json() gives  *)
(*    predictions |-> None | Some(list), image |-> None | Some(dims)]      *)
(* and dims is [width |-> None | Some(int), height |-> None | Some(int)].  *)
(***************************************************************************)
DetectionFailed == "Detection failed. Please check your Roboflow API configuration."

RoboflowApiError == "Roboflow API error"

FixedLocation == "Binangonan, Rizal"

\* data.predictions || []
predictionsOrEmpty(r) == IF IsSome(r.predictions) THEN Get(r.predictions) ELSE <<>>

\* orOne without its fallback: the dimension as the response gives it
orOneNoFallback(v) == IF IsSome(v) THEN Get(v) ELSE 0

\* v || 1 for an optional number v: undefined and 0 are falsy
orOne(v) == IF IsSome(v) /\ Get(v) # 0 THEN Get(v) ELSE 1

\* data.image?.width || 1
imgWidthOf(r) == IF IsSome(r.image) THEN orOne(Get(r.image).width) ELSE 1

\* data.image?.height || 1
imgHeightOf(r) == IF IsSome(r.image) THEN orOne(Get(r.image).height) ELSE 1

\* where p goes in a list already sorted by descending confidence: after
\* every element the comparator b.confidence - a.confidence does not put
\* behind it (the sort is stable)
RECURSIVE insertByConfidence(_, _)
insertByConfidence(sorted, p) ==
    IF sorted = <<>> THEN <<p>>
    ELSE IF Head(sorted).confidence >= p.confidence
         THEN <<Head(sorted)>> \o insertByConfidence(Tail(sorted), p)
         ELSE <<p>> \o sorted

\* the sort with the comparator a.confidence - b.confidence: ascending
RECURSIVE insertAscending(_, _)
insertAscending(sorted, p) ==
    IF sorted = <<>> THEN <<p>>
    ELSE IF Head(sorted).confidence <= p.confidence
         THEN <<Head(sorted)>> \o insertAscending(Tail(sorted), p)
         ELSE <<p>> \o sorted

RECURSIVE sortByConfidenceAscending(_)
sortByConfidenceAscending(preds) ==
    IF preds = <<>> THEN <<>>
    ELSE insertAscending(sortByConfidenceAscending(SubSeq(preds, 1, Len(preds) - 1)),
                         preds[Len(preds)])

\* predictions.sort((a, b) => b.confidence - a.confidence)
RECURSIVE sortByConfidence(_)
sortByConfidence(preds) ==
    IF preds = <<>> THEN <<>>
    ELSE insertByConfidence(sortByConfidence(SubSeq(preds, 1, Len(preds) - 1)),
                            preds[Len(preds)])

\* statusOf without toLowerCase: a case-sensitive match
statusOfCaseSensitive(bestPred) ==
    IF includes(bestPred.class, Healthy) THEN "Safe" ELSE "Contaminated"

\* the status of a non-empty list's best prediction (App.tsx 105-106)
statusOf(bestPred) ==
    IF includes(toLowerCase(bestPred.class), Healthy) THEN "Safe" ELSE "Contaminated"

\* the initial value of status with another member of the union type
NoDetectionStatusInconclusive == "Inconclusive"

\* let status = 'No Fish Detected' (App.tsx 103)
NoDetectionStatus == "No Fish Detected"

\* bestPred.class.replace(/-/g, ' ').toUpperCase()
symptomOf(bestPred) == toUpperCase(replaceHyphens(bestPred.class))

\* the object built at App.tsx 109-130 (the timestamp, a clock reading, is
\* left out); sorted is the prediction list after the in-place sort
verdictOf(base64Image, sorted, imgWidth, imgHeight) ==
    LET hasDetections == Len(sorted) > 0
        st == IF hasDetections THEN statusOf(sorted[1]) ELSE NoDetectionStatus
    IN  [status |-> st,
         confidence |-> IF hasDetections THEN sorted[1].confidence ELSE 0,
         location |-> FixedLocation,
         primarySymptom |-> IF hasDetections THEN symptomOf(sorted[1])
                            ELSE <<"N", "O", "N", "E">>,
         description |->
            IF hasDetections
            THEN [text |-> IF st = "Safe" THEN "identified" ELSE "detected",
                  class |-> sorted[1].class,
                  percent |-> RoundPercent(sorted[1].confidence)]
            ELSE [text |-> "No fish or HAB indicators", class |-> <<>>, percent |-> 0],
         guidance |->
            IF hasDetections
            THEN (IF st = "Safe" THEN "Sample appears normal" ELSE "DO NOT CONSUME")
            ELSE "Please try scanning again",
         boundingBoxes |->
            [i \in 1..Len(sorted) |-> normalizeCoordinates(sorted[i], imgWidth, imgHeight)],
         image |-> base64Image]

\* tryBlock without the response.ok check of App.tsx 93
tryBlockNoStatusCheck(base64Image, r) ==
    IF r.net = "error"
    THEN [threw |-> TRUE, err |-> "TypeError: Failed to fetch", value |-> None]
    ELSE IF r.json = "invalid"
    THEN [threw |-> TRUE, err |-> "SyntaxError", value |-> None]
    ELSE IF r.json = "null"
    THEN [threw |-> TRUE, err |-> "TypeError: data is null", value |-> None]
    ELSE [threw |-> FALSE, err |-> "",
          value |-> Some(verdictOf(base64Image,
                                   sortByConfidence(predictionsOrEmpty(r)),
                                   imgWidthOf(r), imgHeightOf(r)))]

\* the try block (App.tsx 86-130): what it throws, or the verdict it returns
tryBlock(base64Image, r) ==
    IF r.net = "error"
    THEN [threw |-> TRUE, err |-> "TypeError: Failed to fetch", value |-> None]
    ELSE IF ~r.ok
    THEN [threw |-> TRUE, err |-> RoboflowApiError, value |-> None]
    ELSE IF r.json = "invalid"
    THEN [threw |-> TRUE, err |-> "SyntaxError", value |-> None]
    ELSE IF r.json = "null"
    THEN [threw |-> TRUE, err |-> "TypeError: data is null", value |-> None]
    ELSE [threw |-> FALSE, err |-> "",
          value |-> Some(verdictOf(base64Image,
                                   sortByConfidence(predictionsOrEmpty(r)),
                                   imgWidthOf(r), imgHeightOf(r)))]

\* the promise analyzeImage returns: resolved with a verdict, or rejected
\* with the error the catch block throws (App.tsx 131-134)
analyzeImage(base64Image, r) ==
    LET t == tryBlock(base64Image, r)
    IN  IF t.threw
        THEN [resolved |-> FALSE, value |-> None, message |-> DetectionFailed]
        ELSE [resolved |-> TRUE, value |-> t.value, message |-> ""]

(***************************************************************************)
(* What the remote endpoint may answer.                                    *)
(***************************************************************************)
ClassHealthyFish == <<"h", "e", "a", "l", "t", "h", "y", "-", "f", "i", "s", "h">>

ClassLesion == <<"l", "e", "s", "i", "o", "n">>

ClassHealthyCapital == <<"H", "e", "a", "l", "t", "h", "y">>

Classes == {ClassHealthyFish, ClassLesion, ClassHealthyCapital}

\* raw scores, in thousandths
Confidences == {900, 950}

\* centre and size in pixels: a box inside a 4x4 image
InsideBox == [x |-> 2, y |-> 2, width |-> 2, height |-> 2]

\* a box that extends beyond a 4x4 image on every side
BeyondBox == [x |-> 3, y |-> 0, width |-> 10, height |-> 4]

\* a box whose left edge lies on the axis and whose top edge lies above it
EdgeBox == [x |-> 1, y |-> 0, width |-> 2, height |-> 1]

Geometries == {InsideBox, BeyondBox, EdgeBox}

\* one element of the response's predictions array
Pred(g, c, s) ==
    [x |-> g.x, y |-> g.y, width |-> g.width, height |-> g.height,
     class |-> c, confidence |-> s]

\* the code reads a prediction's label and score apart from its geometry:
\* every label at every score on one geometry, and each other geometry at
\* every score
Predictions ==
    { Pred(InsideBox, c, s) : c \in Classes, s \in Confidences }
    \cup { Pred(BeyondBox, ClassLesion, s) : s \in Confidences }
    \cup { Pred(EdgeBox, ClassHealthyFish, s) : s \in Confidences }

RECURSIVE SeqsUpTo(_, _)
SeqsUpTo(S, n) ==
    IF n = 0 THEN {<<>>}
    ELSE LET shorter == SeqsUpTo(S, n - 1)
         IN  shorter \cup { Append(q, e) : q \in {t \in shorter : Len(t) = n - 1}, e \in S }

\* image.width / image.height: absent, 0, the pixel size, a negative number
Dimension == {None, Some(0), Some(4), Some(-4)}

ImageField == {None} \cup { Some([width |-> w, height |-> h]) : w \in Dimension, h \in Dimension }

NetworkError ==
    [net |-> "error", ok |-> FALSE, json |-> "invalid", predictions |-> None, image |-> None]

HttpError ==
    [net |-> "ok", ok |-> FALSE, json |-> "object", predictions |-> None, image |-> None]

InvalidJson ==
    [net |-> "ok", ok |-> TRUE, json |-> "invalid", predictions |-> None, image |-> None]

NullJson ==
    [net |-> "ok", ok |-> TRUE, json |-> "null", predictions |-> None, image |-> None]

\* a 2xx response whose body is the JSON object built from the two fields
Body(preds, img) ==
    [net |-> "ok", ok |-> TRUE, json |-> "object", predictions |-> preds, image |-> img]

FullImage == Some([width |-> Some(4), height |-> Some(4)])

\* a non-2xx response that carries a well-formed body all the same
HttpErrorWithBody ==
    [net |-> "ok", ok |-> FALSE, json |-> "object",
     predictions |-> Some(<<Pred(InsideBox, ClassHealthyCapital, 900)>>),
     image |-> FullImage]

\* the outcomes the application run draws from
AppResponses ==
    { NetworkError, HttpError, HttpErrorWithBody, InvalidJson,
      Body(None, None),
      Body(Some(<<>>), FullImage),
      Body(Some(<<Pred(InsideBox, ClassHealthyCapital, 900)>>), FullImage),
      Body(Some(<<Pred(InsideBox, ClassHealthyFish, 900),
                  Pred(BeyondBox, ClassLesion, 950)>>), FullImage) }

\* every outcome SpecFn hands to analyzeImage
FnResponses ==
    {NetworkError, HttpError, HttpErrorWithBody, InvalidJson, NullJson}
    \cup { Body(None, img) : img \in ImageField }
    \cup { Body(Some(ps), img) : ps \in SeqsUpTo(Predictions, MaxPreds), img \in ImageField }

(***************************************************************************)
(* SpecFn: analyzeImage applied to one outcome.                            *)
(***************************************************************************)
FnImage == "data:image/jpeg;base64,AAAA"

NoOutcome == [resolved |-> FALSE, value |-> None, message |-> ""]

(***************************************************************************)
(* The application: App (App.tsx 347-418) and CameraView (139-232).        *)
(***************************************************************************)
\* what canvas.toDataURL gives for a canvas without pixels (videoWidth 0)
EmptyCanvas == "data:,"

CameraFrames == {"data:image/jpeg;base64,FRAME"}

Files == {"data:image/png;base64,FILE"}

Images == CameraFrames \cup Files \cup {EmptyCanvas}

RECURSIVE Total(_, _)
Total(f, S) ==
    IF S = {} THEN 0
    ELSE LET e == CHOOSE e \in S : TRUE IN f[e] + Total(f, S \ {e})

\* analyzeImage calls in flight
InFlight == Total(calls, Images)

PendingReaders == Total(readers, Images)

\* App.tsx 398-403: CameraView is rendered exactly when there is no result
CameraMounted(res) == res = None

\* the stream the effect's cleanup closes over (App.tsx 164-167): the effect
\* runs once per instance, after its first render, where stream is still null
CleanupClosureStream == None

\* the cleanup: stream?.getTracks().forEach(track => track.stop())
AfterCleanup(liveStreams) ==
    IF IsSome(CleanupClosureStream)
    THEN liveStreams \ {Get(CleanupClosureStream)}
    ELSE liveStreams

\* the capture button (App.tsx 224): disabled={isAnalyzing}
CaptureButtonEnabled == CameraMounted(result) /\ status # "ANALYZING"

\* a file input offered only once the camera stream is there
FileInputNeedsStream == CameraMounted(result) /\ IsSome(stream)

\* the file input (App.tsx 213-223) is rendered with CameraView, never disabled
FileInputEnabled == CameraMounted(result)

Event(op, r) == [op |-> op, from |-> status, r |-> r, held |-> result]

\* handleCapture without setError(null)
handleCaptureKeepsError(imageData, op) ==
    /\ lastImg' = Some(imageData)
    /\ status' = "ANALYZING"
    /\ error' = error
    /\ calls' = [calls EXCEPT ![imageData] = @ + 1]
    /\ nCaptures' = nCaptures + 1
    /\ nRequests' = nRequests + 1
    /\ last' = Event(op, NetworkError)
    /\ UNCHANGED <<result, mountId, stream, acquiring, live>>

\* handleCapture up to its await (App.tsx 354-359), analyzeImage up to fetch
handleCapture(imageData, op) ==
    /\ lastImg' = Some(imageData)
    /\ status' = "ANALYZING"
    /\ error' = None
    /\ calls' = [calls EXCEPT ![imageData] = @ + 1]
    /\ nCaptures' = nCaptures + 1
    /\ nRequests' = nRequests + 1
    /\ last' = Event(op, NetworkError)
    /\ UNCHANGED <<result, mountId, stream, acquiring, live>>

\* CameraView.capture (App.tsx 178-186), the capture button's onClick.
\* videoRef and canvasRef are set while the view is mounted; without a
\* playing stream videoWidth is 0 and the canvas has no pixels.
capture ==
    /\ CaptureButtonEnabled
    /\ nCaptures + PendingReaders < MaxCaptures
    /\ \E frame \in (IF IsSome(stream) THEN CameraFrames ELSE {}) \cup {EmptyCanvas} :
          handleCapture(frame, "capture")
    /\ UNCHANGED readers

\* the file input's onChange (App.tsx 215-222): reader.readAsDataURL(file)
selectFile ==
    /\ FileInputEnabled
    /\ nCaptures + PendingReaders < MaxCaptures
    /\ \E file \in Files : readers' = [readers EXCEPT ![file] = @ + 1]
    /\ last' = Event("select", NetworkError)
    /\ UNCHANGED <<status, result, error, lastImg, calls, mountId, stream,
                   acquiring, live, nCaptures, nRequests>>

\* reader.onload (App.tsx 219): onCapture(ev.target.result)
readerLoad ==
    \E file \in Files :
        /\ readers[file] > 0
        /\ readers' = [readers EXCEPT ![file] = @ - 1]
        /\ handleCapture(file, "load")

\* inferenceDone whose catch branch also drops the stored frame
inferenceDoneClearsFrame ==
    \E img \in Images, r \in AppResponses :
        /\ calls[img] > 0
        /\ calls' = [calls EXCEPT ![img] = @ - 1]
        /\ LET p == analyzeImage(img, r)
           IN  IF p.resolved
               THEN /\ result' = p.value
                    /\ status' = "SUCCESS"
                    /\ error' = error
                    /\ stream' = None
                    /\ live' = IF CameraMounted(result) THEN AfterCleanup(live) ELSE live
                    /\ lastImg' = lastImg
               ELSE /\ error' = Some(p.message)
                    /\ status' = "ERROR"
                    /\ lastImg' = None
                    /\ UNCHANGED <<result, stream, live>>
        /\ last' = Event("done", r)
        /\ UNCHANGED <<readers, mountId, acquiring, nCaptures, nRequests>>

\* inferenceDone that sends a failed request once more
inferenceDoneRetries ==
    \E img \in Images, r \in AppResponses :
        /\ calls[img] > 0
        /\ LET p == analyzeImage(img, r)
           IN  IF p.resolved
               THEN /\ calls' = [calls EXCEPT ![img] = @ - 1]
                    /\ result' = p.value
                    /\ status' = "SUCCESS"
                    /\ error' = error
                    /\ stream' = None
                    /\ live' = IF CameraMounted(result) THEN AfterCleanup(live) ELSE live
                    /\ nRequests' = nRequests
               ELSE /\ calls' = calls
                    /\ nRequests' = nRequests + 1
                    /\ UNCHANGED <<error, status, result, stream, live>>
        /\ last' = Event("done", r)
        /\ UNCHANGED <<lastImg, readers, mountId, acquiring, nCaptures>>

\* inferenceDone whose catch swallows the rejection: no error, no status
inferenceDoneSwallowsFailure ==
    \E img \in Images, r \in AppResponses :
        /\ calls[img] > 0
        /\ calls' = [calls EXCEPT ![img] = @ - 1]
        /\ LET p == analyzeImage(img, r)
           IN  IF p.resolved
               THEN /\ result' = p.value
                    /\ status' = "SUCCESS"
                    /\ error' = error
                    /\ stream' = None
                    /\ live' = IF CameraMounted(result) THEN AfterCleanup(live) ELSE live
               ELSE UNCHANGED <<error, status, result, stream, live>>
        /\ last' = Event("done", r)
        /\ UNCHANGED <<lastImg, readers, mountId, acquiring, nCaptures, nRequests>>

\* handleCapture after its await (App.tsx 359-365), for one call in flight;
\* the render that follows unmounts CameraView when a result appears
inferenceDone ==
    \E img \in Images, r \in AppResponses :
        /\ calls[img] > 0
        /\ calls' = [calls EXCEPT ![img] = @ - 1]
        /\ LET p == analyzeImage(img, r)
           IN  IF p.resolved
               THEN /\ result' = p.value
                    /\ status' = "SUCCESS"
                    /\ error' = error
                    /\ stream' = None
                    /\ live' = IF CameraMounted(result) THEN AfterCleanup(live) ELSE live
               ELSE /\ error' = Some(p.message)
                    /\ status' = "ERROR"
                    /\ UNCHANGED <<result, stream, live>>
        /\ last' = Event("done", r)
        /\ UNCHANGED <<lastImg, readers, mountId, acquiring, nCaptures, nRequests>>

\* resetDetection without setError(null)
resetDetectionKeepsError ==
    /\ IsSome(result)
    /\ result' = None
    /\ status' = "IDLE"
    /\ error' = error
    /\ mountId' = mountId + 1
    /\ stream' = None
    /\ acquiring' = acquiring \cup {mountId + 1}
    /\ last' = Event("reset", NetworkError)
    /\ UNCHANGED <<lastImg, calls, readers, live, nCaptures, nRequests>>

\* resetDetection (App.tsx 368-372), offered by ResultDisplay only; the
\* render that follows mounts a new CameraView, whose effect calls startCamera
resetDetection ==
    /\ IsSome(result)
    /\ result' = None
    /\ status' = "IDLE"
    /\ error' = None
    /\ mountId' = mountId + 1
    /\ stream' = None
    /\ acquiring' = acquiring \cup {mountId + 1}
    /\ last' = Event("reset", NetworkError)
    /\ UNCHANGED <<lastImg, calls, readers, live, nCaptures, nRequests>>

\* startCamera after its await (App.tsx 156-158): getUserMedia resolved for
\* instance m; setStream reaches only an instance that is still mounted
cameraGranted ==
    \E m \in acquiring :
        /\ acquiring' = acquiring \ {m}
        /\ live' = live \cup {m}
        /\ stream' = IF CameraMounted(result) /\ m = mountId THEN Some(m) ELSE stream
        /\ last' = Event("granted", NetworkError)
        /\ UNCHANGED <<status, result, error, lastImg, calls, readers, mountId,
                       nCaptures, nRequests>>

\* startCamera's catch (App.tsx 159-161): getUserMedia rejected, logged only
cameraDenied ==
    \E m \in acquiring :
        /\ acquiring' = acquiring \ {m}
        /\ last' = Event("denied", NetworkError)
        /\ UNCHANGED <<status, result, error, lastImg, calls, readers, mountId,
                       stream, live, nCaptures, nRequests>>

AppInit ==
    /\ status = "IDLE"
    /\ result = None
    /\ error = None
    /\ lastImg = None
    /\ calls = [i \in Images |-> 0]
    /\ readers = [i \in Images |-> 0]
    /\ mountId = 1
    /\ stream = None
    /\ acquiring = {1}
    /\ live = {}
    /\ nCaptures = 0
    /\ nRequests = 0
    /\ last = [op |-> "init", from |-> "IDLE", r |-> NetworkError, held |-> None]

Init ==
    /\ AppInit
    /\ fnIn = NetworkError
    /\ fnOut = NoOutcome
    /\ fnPc = "off"

Next ==
    \/ capture /\ UNCHANGED fnVars
    \/ selectFile /\ UNCHANGED fnVars
    \/ readerLoad /\ UNCHANGED fnVars
    \/ inferenceDone /\ UNCHANGED fnVars
    \/ resetDetection /\ UNCHANGED fnVars
    \/ cameraGranted /\ UNCHANGED fnVars
    \/ cameraDenied /\ UNCHANGED fnVars

Spec == Init /\ [][Next]_vars

\* the continuation of handleCapture's await runs once the promise of
\* analyzeImage settles: every call in flight is eventually completed
Completion == WF_vars(inferenceDone /\ UNCHANGED fnVars)

SpecLive == Init /\ [][Next]_vars /\ Completion

\* one call of analyzeImage on the drawn outcome
fnAnalyze ==
    /\ fnPc = "call"
    /\ fnOut' = analyzeImage(FnImage, fnIn)
    /\ fnPc' = "done"
    /\ UNCHANGED fnIn
    /\ UNCHANGED appVars

InitFn ==
    /\ AppInit
    /\ fnIn \in FnResponses
    /\ fnOut = NoOutcome
    /\ fnPc = "call"

NextFn == fnAnalyze

SpecFn == InitFn /\ [][NextFn]_vars

(***************************************************************************)
(* Properties.                                                             *)
(***************************************************************************)
CaptureOps == {"capture", "load"}

\* C1: at most one analyzeImage call is in flight in every reachable state,
\* and no capture, from the button or from the file input, is accepted while
\* the status is ANALYZING.
C1_SingleInFlight ==
    /\ InFlight <= 1
    /\ last.op \in CaptureOps => last.from # "ANALYZING"

\* C2: the result (the Verdict) and the error are never both non-empty.
C2_VerdictOrError == ~(IsSome(result) /\ IsSome(error))

\* C3: every change of status is one of four transitions: IDLE to ANALYZING
\* on a capture, ANALYZING to SUCCESS on an inference success, ANALYZING to
\* ERROR on an inference failure, SUCCESS or ERROR to IDLE on reset.
C3_FourTransitions ==
    last.from # status =>
        \/ last.op \in CaptureOps /\ last.from = "IDLE" /\ status = "ANALYZING"
        \/ last.op = "done" /\ last.from = "ANALYZING" /\ status = "SUCCESS"
        \/ last.op = "done" /\ last.from = "ANALYZING" /\ status = "ERROR"
        \/ last.op = "reset" /\ last.from \in {"SUCCESS", "ERROR"} /\ status = "IDLE"

\* C4: after resetDetection the status is IDLE, the verdict is empty and the
\* error is empty, whatever verdict was shown before the reset.
C4_ResetClears ==
    last.op = "reset" => status = "IDLE" /\ result = None /\ error = None

\* the cycle of C4 run once: one capture, its success shown, then the reset
C4_Witness ==
    /\ last.op = "reset"
    /\ last.from = "SUCCESS"
    /\ IsSome(last.held)
    /\ nCaptures = 1
    /\ status = "IDLE"

\* C5: every acquired stream that is live belongs to the mounted capture
\* view (none stays live once the view is torn down, also when it was
\* acquired after the teardown), and at most one stream is live.
C5_StreamReleased ==
    /\ live \subseteq (IF CameraMounted(result) /\ IsSome(stream) THEN {Get(stream)} ELSE {})
    /\ Cardinality(live) <= 1

\* C6: when a call completes with a non-2xx response, analyzeImage rejects
\* and constructs no Verdict, the status becomes ERROR with the error
\* stored, and the result field is what it was before that completion.
C6_NonSuccessStatusFails ==
    /\ \A img \in Images, r \in AppResponses :
          (r.net = "ok" /\ ~r.ok) =>
              ~analyzeImage(img, r).resolved /\ analyzeImage(img, r).value = None
    /\ (last.op = "done" /\ last.r.net = "ok" /\ ~last.r.ok) =>
          status = "ERROR" /\ result = last.held /\ IsSome(error)

\* a non-2xx completion that found the application ANALYZING, no verdict held
C6_Witness ==
    /\ last.op = "done"
    /\ last.r = HttpError
    /\ last.from = "ANALYZING"
    /\ status = "ERROR"
    /\ result = None

\* a response that is not a 2xx JSON object holding a predictions list
Malformed(r) ==
    \/ r.net = "error"
    \/ ~r.ok
    \/ r.json # "object"
    \/ r.predictions = None

\* C7: a network error, a malformed response and a non-success status all
\* make analyzeImage reject with the one generic error, and no Verdict is
\* returned.
C7_MalformedFails ==
    (fnPc = "done" /\ Malformed(fnIn)) =>
        ~fnOut.resolved /\ fnOut.value = None /\ fnOut.message = DetectionFailed

\* C8: a successful response with an empty prediction list gives the status
\* No Fish Detected, confidence 0, no bounding boxes and primarySymptom
\* NONE, whatever the image dimensions in the response.
C8_EmptyListVerdict ==
    (fnPc = "done" /\ fnIn.net = "ok" /\ fnIn.ok /\ fnIn.json = "object"
        /\ fnIn.predictions = Some(<<>>)) =>
        /\ fnOut.resolved
        /\ Get(fnOut.value).status = "No Fish Detected"
        /\ Get(fnOut.value).confidence = 0
        /\ Get(fnOut.value).boundingBoxes = <<>>
        /\ Get(fnOut.value).primarySymptom = <<"N", "O", "N", "E">>

\* an empty list answered together with a zero width and no height
C8_Witness ==
    /\ fnPc = "done"
    /\ fnIn = Body(Some(<<>>), Some([width |-> Some(0), height |-> None]))
    /\ fnOut.resolved

HealthyUpper == <<"H", "E", "A", "L", "T", "H", "Y">>

\* label contains "healthy", letters in either case
ContainsHealthy(label) ==
    \E i \in 0..(Len(label) - 7) :
        \A k \in 1..7 : label[i + k] \in {Healthy[k], HealthyUpper[k]}

\* C9: for a non-empty prediction list the Verdict follows one prediction
\* whose confidence is at least that of every other: confidence is that
\* maximum, status is Safe exactly when its label contains "healthy" in any
\* case and Contaminated otherwise, and never anything else.
C9_BestPredictionDecides ==
    (fnPc = "done" /\ fnIn.net = "ok" /\ fnIn.ok /\ fnIn.json = "object"
        /\ IsSome(fnIn.predictions) /\ Get(fnIn.predictions) # <<>>) =>
        LET ps == Get(fnIn.predictions)
            v == Get(fnOut.value)
        IN  /\ fnOut.resolved
            /\ v.status \in {"Safe", "Contaminated"}
            /\ \A j \in 1..Len(ps) : v.confidence >= ps[j].confidence
            /\ \E i \in 1..Len(ps) :
                  /\ \A j \in 1..Len(ps) : ps[i].confidence >= ps[j].confidence
                  /\ v.confidence = ps[i].confidence
                  /\ v.status = "Safe" <=> ContainsHealthy(ps[i].class)
                  /\ v.status = "Contaminated" <=> ~ContainsHealthy(ps[i].class)

\* the example of the specification: healthy-fish at 0.9 before lesion at 0.95
C9_Witness ==
    /\ fnPc = "done"
    /\ IsSome(fnIn.predictions)
    /\ Len(Get(fnIn.predictions)) = 2
    /\ Get(fnIn.predictions)[1].class = ClassHealthyFish
    /\ Get(fnIn.predictions)[1].confidence = 900
    /\ Get(fnIn.predictions)[2].class = ClassLesion
    /\ Get(fnIn.predictions)[2].confidence = 950
    /\ fnOut.resolved
    /\ Get(fnOut.value).status = "Contaminated"

\* b is a number within [0, 1000]
InRange(b) == b.k = "num" /\ 0 <= b.n /\ b.n <= 1000 * b.d

\* the dimension d of the response is absent or 0
Falsy(d) == d = None \/ d = Some(0)

\* (c + size / 2) * 1000 clamped into [0, 1000]: the edge for a dimension 1
EdgeAtOne(c, size) ==
    LET v == (2 * c + size) * 500
    IN  IF v < 0 THEN Num(0, 1) ELSE IF v > 1000 THEN Num(1000, 1) ELSE Num(v, 1)

\* C10: every bound of every bounding box of a Verdict is a number within
\* [0, 1000], for every centre and size and every image dimension of the
\* response; a width or height that is 0 or absent is treated as 1.
C10_BoundsInRange ==
    (fnPc = "done" /\ fnOut.resolved) =>
        LET boxes == Get(fnOut.value).boundingBoxes
            ps == predictionsOrEmpty(fnIn)
            noWidth == fnIn.image = None \/ Falsy(Get(fnIn.image).width)
            noHeight == fnIn.image = None \/ Falsy(Get(fnIn.image).height)
        IN  /\ \A i \in 1..Len(boxes) :
                  /\ InRange(boxes[i].ymin) /\ InRange(boxes[i].xmin)
                  /\ InRange(boxes[i].ymax) /\ InRange(boxes[i].xmax)
            /\ \A i \in 1..Len(boxes) : \E j \in 1..Len(ps) :
                  /\ noWidth => /\ boxes[i].xmin = EdgeAtOne(ps[j].x, -ps[j].width)
                                /\ boxes[i].xmax = EdgeAtOne(ps[j].x, ps[j].width)
                  /\ noHeight => /\ boxes[i].ymin = EdgeAtOne(ps[j].y, -ps[j].height)
                                 /\ boxes[i].ymax = EdgeAtOne(ps[j].y, ps[j].height)

\* a box that extends beyond the image and a box on the axes, answered with
\* a zero width and no height
C10_Witness ==
    /\ fnPc = "done"
    /\ fnOut.resolved
    /\ fnIn.image = Some([width |-> Some(0), height |-> None])
    /\ IsSome(fnIn.predictions)
    /\ Len(Get(fnIn.predictions)) = 2
    /\ Get(fnIn.predictions)[1].width = BeyondBox.width
    /\ Get(fnIn.predictions)[2].x = EdgeBox.x
    /\ Len(Get(fnOut.value).boundingBoxes) = 2

\* a <= b for two numbers
Leq(a, b) == a.k = "num" /\ b.k = "num" /\ a.n * b.d <= b.n * a.d

\* the dimension d of the response is positive, or falls back to 1
PositiveDimension(d) == d = None \/ Get(d) >= 0

\* C11: for predictions with a pixel centre and size and image dimensions
\* greater than 0, the normalized box is well-ordered after clamping:
\* ymin <= ymax and xmin <= xmax.
C11_WellOrdered ==
    (fnPc = "done" /\ fnOut.resolved) =>
        LET boxes == Get(fnOut.value).boundingBoxes
            okWidth == fnIn.image = None \/ PositiveDimension(Get(fnIn.image).width)
            okHeight == fnIn.image = None \/ PositiveDimension(Get(fnIn.image).height)
        IN  \A i \in 1..Len(boxes) :
                /\ okWidth => Leq(boxes[i].xmin, boxes[i].xmax)
                /\ okHeight => Leq(boxes[i].ymin, boxes[i].ymax)

\* a box inside a 4x4 image: 250..750 on both axes
C11_Witness ==
    /\ fnPc = "done"
    /\ fnOut.resolved
    /\ fnIn.image = FullImage
    /\ Len(Get(fnOut.value).boundingBoxes) = 1
    /\ Get(fnOut.value).boundingBoxes[1].xmin = Num(250, 1)
    /\ Get(fnOut.value).boundingBoxes[1].xmax = Num(750, 1)
    /\ Get(fnOut.value).boundingBoxes[1].ymin = Num(250, 1)
    /\ Get(fnOut.value).boundingBoxes[1].ymax = Num(750, 1)

\* C12: with no active camera stream the capture control hands no frame to
\* the application: no capture from the button is ever accepted while the
\* mounted view has no stream.
C12_NoStreamNoCapture == last.op = "capture" => IsSome(stream)

\* C13: in the ERROR state a capture is enabled without a reset, and taking
\* it moves the status to ANALYZING, clears the error and stores the frame.
C13_UsableAfterError ==
    /\ status = "ERROR" => CaptureButtonEnabled /\ FileInputEnabled
    /\ (last.op \in CaptureOps /\ last.from = "ERROR") =>
          status = "ANALYZING" /\ error = None /\ IsSome(lastImg)

\* C14: a rejected getUserMedia leaves status, result and error as they
\* were and leaves the file input offered, and a file that loads moves the
\* application to ANALYZING and issues exactly one request.
C14_CameraFailureNonFatal ==
    [][ /\ last'.op = "denied" =>
              /\ UNCHANGED <<status, result, error>>
              /\ CameraMounted(result') => FileInputEnabled'
        /\ last'.op = "load" =>
              /\ status' = "ANALYZING"
              /\ nRequests' = nRequests + 1
              /\ InFlight' = InFlight + 1 ]_vars

\* the camera was refused, then a chosen file was loaded from IDLE
C14_Witness ==
    /\ mountId = 1
    /\ acquiring = {}
    /\ live = {}
    /\ last.op = "load"
    /\ last.from = "IDLE"
    /\ status = "ANALYZING"
    /\ nRequests = 1

\* C15: an inference failure sets the status to ERROR and stores the
\* message; the stored frame and the verdict field are left as they were.
C15_FailureFrame ==
    [][ (last'.op = "done" /\ status' = "ERROR") =>
            /\ error' = Some(DetectionFailed)
            /\ UNCHANGED <<lastImg, result, stream, mountId>> ]_vars

\* a failed call for a file, found ANALYZING, the file still stored
C15_Witness ==
    /\ last.op = "done"
    /\ last.r = NetworkError
    /\ last.from = "ANALYZING"
    /\ status = "ERROR"
    /\ lastImg \in {Some(f) : f \in Files}
    /\ error = Some(DetectionFailed)

\* C16: status ANALYZING implies that the error is empty.
C16_AnalyzingNoError == status = "ANALYZING" => error = None

\* a capture taken from ERROR: the populated error was cleared
C16_Witness ==
    /\ status = "ANALYZING"
    /\ last.op \in CaptureOps
    /\ last.from = "ERROR"
    /\ error = None

\* C17: the number of requests issued equals the number of captures
\* accepted; a failed request is not sent again.
C17_OneRequestPerCapture ==
    /\ nRequests = nCaptures
    /\ InFlight <= nRequests
    /\ (last.op = "done" /\ nCaptures = 1) => InFlight = 0

\* one capture, its request failed, nothing in flight afterwards
C17_Witness ==
    /\ last.op = "done"
    /\ status = "ERROR"
    /\ nCaptures = 1
    /\ nRequests = 1
    /\ InFlight = 0

\* the one-to-one assignments of n boxes to n predictions
Orders ==
    [n \in 0..MaxPreds |->
        { p \in [1..n -> 1..n] : \A i, j \in 1..n : i # j => p[i] # p[j] }]

\* C18: for a non-empty prediction list boundingBoxes holds exactly one
\* normalized box per prediction, and the box at index 0 is the box of the
\* maximum-confidence prediction that determined status and symptom.
C18_BoxPerPrediction ==
    (fnPc = "done" /\ fnOut.resolved /\ predictionsOrEmpty(fnIn) # <<>>) =>
        LET ps == predictionsOrEmpty(fnIn)
            v == Get(fnOut.value)
        IN  /\ Len(v.boundingBoxes) = Len(ps)
            /\ \E p \in Orders[Len(ps)] :
                  /\ \A j \in 1..Len(ps) : ps[p[1]].confidence >= ps[j].confidence
                  /\ v.confidence = ps[p[1]].confidence
                  /\ v.description.class = ps[p[1]].class
                  /\ \A k \in 1..Len(ps) :
                        v.boundingBoxes[k] =
                            normalizeCoordinates(ps[p[k]], imgWidthOf(fnIn), imgHeightOf(fnIn))

\* the best prediction comes second in the response and its box comes first
C18_Witness ==
    /\ fnPc = "done"
    /\ fnOut.resolved
    /\ fnIn = Body(Some(<<Pred(InsideBox, ClassHealthyFish, 900),
                          Pred(BeyondBox, ClassLesion, 950)>>), FullImage)
    /\ Get(fnOut.value).boundingBoxes[1].xmin = Num(0, 1)
    /\ Get(fnOut.value).boundingBoxes[1].xmax = Num(1000, 1)
    /\ Get(fnOut.value).boundingBoxes[2].xmin = Num(250, 1)

\* C19: once the application is IDLE with no verdict and no error, status,
\* verdict and error stay so until a capture; no completion of an earlier
\* call installs a verdict or an error.
C19_ResetStable ==
    (last.from = "IDLE" /\ last.op \notin CaptureOps) =>
        status = "IDLE" /\ result = None /\ error = None

\* C20: whenever a verdict is present, its image is the last captured frame.
C20_VerdictOfLastCapture ==
    IsSome(result) => lastImg = Some(Get(result).image)

\* C21: whenever status is ANALYZING at least one analyzeImage call is in
\* flight, and, every call in flight eventually completing, ANALYZING is
\* always followed by SUCCESS or ERROR: the application never stays
\* ANALYZING once its calls have completed.
C21_AnalyzingResolves ==
    /\ [](status = "ANALYZING" => InFlight >= 1)
    /\ (status = "ANALYZING") ~> (status \in {"SUCCESS", "ERROR"})

\* the only call in flight completed with a verdict while ANALYZING
C21_Witness ==
    /\ last.op = "done"
    /\ last.from = "ANALYZING"
    /\ status = "SUCCESS"
    /\ InFlight = 0
    /\ PendingReaders = 0

====
